---- MODULE Spec2Model ----
(***************************************************************************)
(* Model of the number guessing game, src/rr+rust/guess.rs.                *)
(*                                                                         *)
(* Text is a sequence of one-character strings.  A u32 is kept at its true *)
(* width as two 16-bit limbs [hi, lo] (value = hi * 65536 + lo), so that   *)
(* the overflow check of the integer parser happens exactly at 2^32.       *)
(***************************************************************************)
EXTENDS Integers, Sequences, FiniteSets, TLC

VARIABLES pc, out, opens, nread, buffer, secret_number,
          iter, consumed, stdin_eof, guess_line, guess, printed

vars == <<pc, out, opens, nread, buffer, secret_number,
          iter, consumed, stdin_eof, guess_line, guess, printed>>

(* Number of loop iterations explored. *)
MaxIter == 3

(***************************************************************************)
(* u32 arithmetic                                                          *)
(***************************************************************************)
Limb == 65536

U32(h, l) == [hi |-> h, lo |-> l]

(* `x as u32` for a value below 2^16 (a byte, a digit). *)
AsU32(n) == U32(0, n)

(* A binding that does not exist yet (before its `let`). *)
Unbound == U32(-1, -1)

(* u32::checked_mul(10) followed by u32::checked_add(d): None on overflow. *)
CheckedMulAdd(x, d) ==
    LET l == x.lo * 10 + d
        h == x.hi * 10 + (l \div Limb)
    IN  IF h >= Limb THEN [ok |-> FALSE, val |-> Unbound]
        ELSE [ok |-> TRUE, val |-> U32(h, l % Limb)]

(* x / 10 and x % 10 on a u32. *)
DivMod10(x) ==
    LET t == (x.hi % 10) * Limb + x.lo
    IN  [quot |-> U32(x.hi \div 10, t \div 10), rem |-> t % 10]

(* Ord::cmp with the Less and Greater arms exchanged. *)
cmpSwapped(a, b) ==
    IF a.hi < b.hi THEN "Greater"
    ELSE IF a.hi > b.hi THEN "Less"
    ELSE IF a.lo < b.lo THEN "Greater"
    ELSE IF a.lo > b.lo THEN "Less"
    ELSE "Equal"

(* Ord::cmp on u32. *)
cmp(a, b) ==
    IF a.hi < b.hi THEN "Less"
    ELSE IF a.hi > b.hi THEN "Greater"
    ELSE IF a.lo < b.lo THEN "Less"
    ELSE IF a.lo > b.lo THEN "Greater"
    ELSE "Equal"

(***************************************************************************)
(* Text: trim, parse, Display                                              *)
(***************************************************************************)
DigitChars == <<"0", "1", "2", "3", "4", "5", "6", "7", "8", "9">>

IsDigit(c) == \E i \in 1..10 : DigitChars[i] = c

DigitVal(c) == (CHOOSE i \in 1..10 : DigitChars[i] = c) - 1

IsWhitespace(c) == c \in {" ", "\n", "\t", "\r"}

RECURSIVE trim_start(_)
trim_start(s) ==
    IF s # <<>> /\ IsWhitespace(Head(s)) THEN trim_start(Tail(s)) ELSE s

RECURSIVE trim_end(_)
trim_end(s) ==
    IF s # <<>> /\ IsWhitespace(s[Len(s)])
    THEN trim_end(SubSeq(s, 1, Len(s) - 1))
    ELSE s

(* str::trim *)
trim(s) == trim_end(trim_start(s))

ParseErr == [ok |-> FALSE, val |-> Unbound]

RECURSIVE ParseDigits(_, _)
ParseDigits(digits, acc) ==
    IF digits = <<>> THEN [ok |-> TRUE, val |-> acc]
    ELSE IF ~IsDigit(Head(digits)) THEN ParseErr
    ELSE LET r == CheckedMulAdd(acc, DigitVal(Head(digits)))
         IN  IF r.ok THEN ParseDigits(Tail(digits), r.val) ELSE ParseErr

(* A parser that also takes a leading "-" as a sign, as the signed integer *)
(* types do, and drops it.                                                 *)
parseAcceptMinus(s) ==
    IF s = <<>> THEN ParseErr
    ELSE IF Len(s) = 1 /\ s[1] \in {"+", "-"} THEN ParseErr
    ELSE ParseDigits(IF s[1] \in {"+", "-"} THEN Tail(s) ELSE s, AsU32(0))

(* <u32 as FromStr>::from_str: an optional "+", then decimal digits; the   *)
(* empty string, a lone sign, any other character and overflow are errors. *)
parse(s) ==
    IF s = <<>> THEN ParseErr
    ELSE IF Len(s) = 1 /\ s[1] \in {"+", "-"} THEN ParseErr
    ELSE ParseDigits(IF s[1] = "+" THEN Tail(s) ELSE s, AsU32(0))

RECURSIVE FmtDigits(_)
FmtDigits(x) ==
    LET dm == DivMod10(x)
    IN  IF dm.quot = AsU32(0) THEN <<DigitChars[dm.rem + 1]>>
        ELSE Append(FmtDigits(dm.quot), DigitChars[dm.rem + 1])

(* Display of the value truncated to its low 16 bits (`guess as u16`). *)
fmtLow(x) == FmtDigits(U32(0, x.lo))

(* <u32 as Display>::fmt, as used by "{}". *)
fmt(x) == FmtDigits(x)

(***************************************************************************)
(* Inputs                                                                  *)
(***************************************************************************)
(* Values of the byte that /dev/urandom may deliver. *)
Bytes == 0..255

(* Lines that standard input may deliver to read_line. *)
InputLines ==
    { <<"\n">>,
      <<"a", "b", "c", "\n">>,
      <<"-", "5", "\n">>,
      <<"-", "0", "\n">>,
      <<"+", "\n">>,
      <<"+", "7", "\n">>,
      <<"0", "0", "7", "\n">>,
      <<" ", "4", "2", " ", "\n">>,
      <<"4", " ", "2", "\n">>,
      <<"\t", "3", "\r", "\n">>,
      <<"1", ".", "5", "\n">>,
      <<"0", "\n">>,
      <<"1", "\n">>,
      <<"4", "2", "\n">>,
      <<"5", "0", "\n">>,
      <<"5", "6", "\n">>,
      <<"9", "9", "\n">>,
      <<"1", "0", "0", "\n">>,
      <<"1", "0", "0">>,
      <<"1", "0", "1", "\n">>,
      <<"4", "2", "9", "4", "9", "6", "7", "2", "9", "5", "\n">>,
      <<"4", "2", "9", "4", "9", "6", "7", "2", "9", "6", "\n">>,
      <<"9", "9", "9", "9", "9", "9", "9", "9", "9", "9", "9", "\n">> }

(***************************************************************************)
(* The program                                                             *)
(***************************************************************************)
Init ==
    /\ pc = "start"
    /\ out = <<>>
    /\ opens = 0
    /\ nread = -1
    /\ buffer = 0
    /\ secret_number = Unbound
    /\ iter = 0
    /\ consumed = 0
    /\ stdin_eof = FALSE
    /\ guess_line = <<>>
    /\ guess = Unbound
    /\ printed = <<>>

(* println!("Guess the number!"); let mut buffer = [0; 1]; *)
Banner ==
    /\ pc = "start"
    /\ out' = Append(out, "banner")
    /\ buffer' = 0
    /\ pc' = "open"
    /\ UNCHANGED <<opens, nread, secret_number, iter, consumed, stdin_eof,
                   guess_line, guess, printed>>

(* File::open("/dev/urandom").unwrap() *)
OpenUrandom ==
    /\ pc = "open"
    /\ opens' = opens + 1
    /\ \/ pc' = "read"
       \/ pc' = "panicked"
    /\ UNCHANGED <<out, nread, buffer, secret_number, iter, consumed,
                   stdin_eof, guess_line, guess, printed>>

(* .read(&mut buffer).unwrap(): Err panics; Ok(n) has 0 <= n <= 1, and     *)
(* only n = 1 stores a byte.  The count n is discarded by the program.     *)
ReadUrandom ==
    /\ pc = "read"
    /\ \/ /\ pc' = "panicked"
          /\ UNCHANGED <<nread, buffer>>
       \/ /\ pc' = "seed"
          /\ nread' = 0
          /\ UNCHANGED buffer
       \/ /\ pc' = "seed"
          /\ nread' = 1
          /\ \E b \in Bytes : buffer' = b
    /\ UNCHANGED <<out, opens, secret_number, iter, consumed, stdin_eof,
                   guess_line, guess, printed>>

(* The mapping without its "+ 1". *)
SecretOfNoPlusOne(b) == AsU32(b % 100)

(* (buffer[0] as u32 % 100) + 1 *)
SecretOf(b) == AsU32((b % 100) + 1)

(* let secret_number = (buffer[0] as u32 % 100) + 1; *)
ComputeSecret ==
    /\ pc = "seed"
    /\ secret_number' = SecretOf(buffer)
    /\ pc' = "loop"
    /\ UNCHANGED <<out, opens, nread, buffer, iter, consumed, stdin_eof,
                   guess_line, guess, printed>>

(* A loop that draws a new secret at the top of every iteration. *)
PromptRerolls ==
    /\ pc = "loop"
    /\ iter < MaxIter
    /\ iter' = iter + 1
    /\ out' = Append(out, "prompt")
    /\ guess_line' = <<>>
    /\ guess' = Unbound
    /\ printed' = <<>>
    /\ pc' = "read_line"
    /\ \E b \in Bytes : secret_number' = SecretOf(b)
    /\ UNCHANGED <<opens, nread, buffer, consumed, stdin_eof>>

(* Top of the loop: println!("Please input your guess.");                  *)
(* let mut guess = String::new();  The bindings of the previous iteration  *)
(* are gone.                                                               *)
Prompt ==
    /\ pc = "loop"
    /\ iter < MaxIter
    /\ iter' = iter + 1
    /\ out' = Append(out, "prompt")
    /\ guess_line' = <<>>
    /\ guess' = Unbound
    /\ printed' = <<>>
    /\ pc' = "read_line"
    /\ UNCHANGED <<opens, nread, buffer, secret_number, consumed, stdin_eof>>

(* io::stdin().read_line(&mut guess).expect("failed to read line"):        *)
(* Err panics; at end of input the call returns Ok(0) and appends nothing; *)
(* otherwise it appends one line, which lacks its newline only when the    *)
(* input ended right after it.                                             *)
ReadLine ==
    /\ pc = "read_line"
    /\ \/ /\ pc' = "panicked"
          /\ UNCHANGED <<guess_line, consumed, stdin_eof>>
       \/ /\ pc' = "parse"
          /\ stdin_eof' = TRUE
          /\ UNCHANGED <<guess_line, consumed>>
       \/ /\ ~stdin_eof
          /\ pc' = "parse"
          /\ \E l \in InputLines :
                /\ guess_line' = guess_line \o l
                /\ stdin_eof' = (l[Len(l)] # "\n")
          /\ consumed' = consumed + 1
    /\ UNCHANGED <<out, opens, nread, buffer, secret_number, iter, guess,
                   printed>>

(* let guess: u32 = match guess.trim().parse() {                           *)
(*     Ok(num) => num, Err(_) => continue };                               *)
ParseGuess ==
    /\ pc = "parse"
    /\ LET r == parse(trim(guess_line))
       IN  IF r.ok
           THEN /\ guess' = r.val
                /\ pc' = "print"
           ELSE /\ pc' = "loop"
                /\ UNCHANGED guess
    /\ UNCHANGED <<out, opens, nread, buffer, secret_number, iter, consumed,
                   stdin_eof, guess_line, printed>>

(* println!("You guessed: {}", guess); *)
PrintGuess ==
    /\ pc = "print"
    /\ printed' = fmt(guess)
    /\ out' = Append(out, "guessed")
    /\ pc' = "cmp"
    /\ UNCHANGED <<opens, nread, buffer, secret_number, iter, consumed,
                   stdin_eof, guess_line, guess>>

(* The match without the `break` of its Equal arm. *)
CompareNoBreak ==
    /\ pc = "cmp"
    /\ LET o == cmp(guess, secret_number)
       IN  CASE o = "Less"    -> out' = Append(out, "small")
             [] o = "Greater" -> out' = Append(out, "big")
             [] o = "Equal"   -> out' = Append(out, "win")
    /\ pc' = "loop"
    /\ UNCHANGED <<opens, nread, buffer, secret_number, iter, consumed,
                   stdin_eof, guess_line, guess, printed>>

(* The match with the body of the Equal arm also in the Greater arm. *)
CompareGreaterWins ==
    /\ pc = "cmp"
    /\ LET o == cmp(guess, secret_number)
       IN  CASE o = "Less"    -> /\ out' = Append(out, "small")
                                 /\ pc' = "loop"
             [] o = "Greater" -> /\ out' = Append(out, "win")
                                 /\ pc' = "done"
             [] o = "Equal"   -> /\ out' = Append(out, "win")
                                 /\ pc' = "done"
    /\ UNCHANGED <<opens, nread, buffer, secret_number, iter, consumed,
                   stdin_eof, guess_line, guess, printed>>

(* match guess.cmp(&secret_number) { Less => "Too small!",                 *)
(*     Greater => "Too big!", Equal => { "You win!"; break; } }            *)
Compare ==
    /\ pc = "cmp"
    /\ LET o == cmp(guess, secret_number)
       IN  CASE o = "Less"    -> /\ out' = Append(out, "small")
                                 /\ pc' = "loop"
             [] o = "Greater" -> /\ out' = Append(out, "big")
                                 /\ pc' = "loop"
             [] o = "Equal"   -> /\ out' = Append(out, "win")
                                 /\ pc' = "done"
    /\ UNCHANGED <<opens, nread, buffer, secret_number, iter, consumed,
                   stdin_eof, guess_line, guess, printed>>

Next ==
    \/ Banner
    \/ OpenUrandom
    \/ ReadUrandom
    \/ ComputeSecret
    \/ Prompt
    \/ ReadLine
    \/ ParseGuess
    \/ PrintGuess
    \/ Compare

Spec == Init /\ [][Next]_vars

(***************************************************************************)
(* Properties                                                              *)
(***************************************************************************)
(* Number of messages of one kind written so far. *)
Count(kind) == Cardinality({i \in DOMAIN out : out[i] = kind})

WinEmitted == Count("win") > 0

(* The secret is initialised (line 11 has run). *)
SecretSet == secret_number # Unbound

(* Decimal text of 2^32 - 1. *)
U32MaxDigits == <<"4", "2", "9", "4", "9", "6", "7", "2", "9", "5">>

RECURSIVE StripZeros(_)
StripZeros(d) ==
    IF Len(d) > 1 /\ d[1] = "0" THEN StripZeros(Tail(d)) ELSE d

(* a <= b for two digit strings of the same length. *)
RECURSIVE LexLeq(_, _)
LexLeq(a, b) ==
    \/ a = <<>>
    \/ DigitVal(a[1]) < DigitVal(b[1])
    \/ DigitVal(a[1]) = DigitVal(b[1]) /\ LexLeq(Tail(a), Tail(b))

(* The digits of a line: surrounding whitespace and one leading "+" taken  *)
(* off.                                                                    *)
DigitsOf(line) ==
    LET t == trim(line)
    IN  IF t # <<>> /\ t[1] = "+" THEN Tail(t) ELSE t

(* The line is a base-10 integer within the u32 range, read off its text:  *)
(* digits only, at least one, and at most 4294967295 once leading zeros    *)
(* are dropped.                                                            *)
IsDecimalU32(line) ==
    LET d == DigitsOf(line)
        n == StripZeros(d)
    IN  /\ d # <<>>
        /\ \A i \in DOMAIN d : IsDigit(d[i])
        /\ \/ Len(n) < 10
           \/ Len(n) = 10 /\ LexLeq(n, U32MaxDigits)

(* C1: whatever byte was read at startup, the secret (byte mod 100) + 1    *)
(* lies in the inclusive range [1, 100].                                   *)
C1_SecretInRange ==
    SecretSet => secret_number.hi = 0 /\ secret_number.lo \in 1..100

C1_Witness ==
    pc = "loop" /\ nread = 1 /\ buffer = 199 /\ secret_number = AsU32(100)

(* C2: the first line whose parsed value equals the secret ends the loop:  *)
(* the comparison of an equal guess writes the win message and stops, the  *)
(* win message is written exactly once over the run, and nothing is read   *)
(* or written after it.                                                    *)
C2_WinEndsLoopOnce ==
    /\ [](/\ Count("win") <= 1
          /\ (pc = "done") <=> (Count("win") = 1)
          /\ pc = "done" => /\ out[Len(out)] = "win"
                            /\ parse(trim(guess_line)).ok
                            /\ parse(trim(guess_line)).val = secret_number)
    /\ [][/\ (pc = "cmp" /\ guess = secret_number)
               => (pc' = "done" /\ out' = Append(out, "win"))
          /\ pc # "done"]_vars

C2_Witness ==
    pc = "done" /\ iter >= 2 /\ Count("win") = 1 /\ consumed = iter

(* C3: the win message is written, and the loop left normally, only if the *)
(* most recently parsed guess equals the secret; while the parsed guess    *)
(* differs from the secret no step writes the win message or leaves the    *)
(* loop.                                                                   *)
C3_WinOnlyOnEqual ==
    /\ []((WinEmitted \/ pc = "done") => (SecretSet /\ guess = secret_number))
    /\ [][guess # secret_number => (~WinEmitted' /\ pc' # "done")]_vars

C3_Witness ==
    /\ pc = "loop"
    /\ iter >= 2
    /\ Count("small") = iter
    /\ ~WinEmitted

(* C4: a line that is not a base-10 integer within the u32 range does not  *)
(* end the loop, does not abort, and writes no message; the program is     *)
(* back at the top of the loop, whose only step is the next prompt.        *)
C4_InvalidLineIgnored ==
    /\ [][(pc = "parse" /\ guess_line # <<>> /\ ~IsDecimalU32(guess_line))
             => (pc' = "loop" /\ out' = out /\ guess' = Unbound)]_vars
    /\ [][pc = "loop" => (pc' = "read_line" /\ out' = Append(out, "prompt"))]_vars

C4_Witness ==
    /\ pc = "done"
    /\ consumed = iter
    /\ \E i \in 1..(Len(out) - 1) : out[i] = "prompt" /\ out[i + 1] = "prompt"

(* C5: a read of standard input that obtains no line, the closed stream    *)
(* included, aborts the program: the program never carries on past a       *)
(* read_line that delivered nothing.                                       *)
C5_ClosedStdinIsFatal ==
    pc \in {"parse", "print", "cmp", "loop", "done"} => consumed = iter

(* C6: the entropy source is consulted exactly once, and the secret of a   *)
(* running loop was derived from a byte that was actually read.            *)
C6_SecretFromByteRead ==
    SecretSet => (opens = 1 /\ nread = 1)

(* C7: each parsed guess gets exactly one outcome: "too small" and another *)
(* iteration when it is below the secret, "too big" and another iteration  *)
(* when it is above, the win message when equal; a guess of 0 is always    *)
(* too small.                                                              *)
C7_ThreeWayFeedback ==
    /\ [](Count("small") + Count("big") + Count("win")
            = Count("guessed") - (IF pc = "cmp" THEN 1 ELSE 0))
    /\ [][pc = "cmp" =>
            /\ (guess.hi = 0 /\ guess.lo < secret_number.lo)
                  => (out' = Append(out, "small") /\ pc' = "loop")
            /\ (guess.hi > 0 \/ guess.lo > secret_number.lo)
                  => (out' = Append(out, "big") /\ pc' = "loop")
            /\ guess = AsU32(0)
                  => (out' = Append(out, "small") /\ pc' = "loop")
            /\ Len(out') = Len(out) + 1
            /\ out'[Len(out')] \in {"small", "big", "win"}]_vars

C7_Witness ==
    /\ pc = "loop"
    /\ guess = AsU32(0)
    /\ out[Len(out)] = "small"
    /\ Count("big") >= 1

(* C8: once set, the secret keeps its value in every later step, and it is *)
(* set before the first iteration.                                         *)
C8_SecretFixed ==
    /\ [](iter > 0 => SecretSet)
    /\ [][SecretSet => secret_number' = secret_number]_vars

C8_Witness ==
    /\ pc = "done"
    /\ iter = MaxIter
    /\ Count("small") >= 1
    /\ Count("big") >= 1

(* C9: the text printed in "You guessed" parses back to the integer parsed *)
(* from the line, it is the decimal text of the line without whitespace,   *)
(* plus sign and leading zeros, and the comparison with the secret is made *)
(* on that same value.                                                     *)
C9_PrintedRoundTrip ==
    /\ [](printed # <<>> =>
            /\ parse(printed) = [ok |-> TRUE, val |-> guess]
            /\ parse(trim(guess_line)) = [ok |-> TRUE, val |-> guess]
            /\ printed = StripZeros(DigitsOf(guess_line)))
    /\ [](pc \in {"cmp", "done"} => printed # <<>>)
    /\ [][pc = "cmp" =>
            ((parse(printed).val = secret_number) <=> (pc' = "done"))]_vars

C9_Witness ==
    /\ pc = "loop"
    /\ guess_line = <<"0", "0", "7", "\n">>
    /\ printed = <<"7">>
    /\ guess = AsU32(7)

(* C10: in every completed iteration the prompt was written once and one   *)
(* line was consumed: the number of lines consumed equals the number of    *)
(* prompts of the completed iterations.                                    *)
C10_OneLinePerPrompt ==
    (pc \in {"loop", "done"}) => (Count("prompt") = consumed)

====
